---- MODULE Spec2Model ----
(***************************************************************************)
(* Route matching and notification lifecycle of the ride-sharing bot:      *)
(* the posts table and its lifecycle handlers, the notifications_log       *)
(* ledger, the Celery dispatch tasks, the expiration worker and the pure   *)
(* matching predicates of services/matching.py.                            *)
(*                                                                         *)
(* Time is counted in minutes.  Telegram message ids are modelled as the   *)
(* smallest id that is neither live nor referenced: any id that is unique  *)
(* among the live messages behaves the same for the code.                  *)
(* A nullable BigInteger column holds 0 for NULL (the code tests these     *)
(* columns by truthiness, so 0 and NULL are indistinguishable to it).      *)
(***************************************************************************)
EXTENDS Integers, Sequences, FiniteSets, Bags, TLC

\* ---------------------------------------------------------------- bounds
NumUsers == 2
MaxPosts == 3
MaxMsg == 3
MaxChan == 2
MaxQueue == 3
MaxSteps == 3
MaxTime == 30
Step == 15
MaxLen == 2
MaxText == 5
MaxSubs == 3
MaxSessions == 2
MaxSubSteps == 7
MaxSweeps == 2
MaxOrders == 3
MaxResponding == 2
MaxOrderSteps == 5
MaxRatingTasks == 4
MaxRatingSteps == 5

\* ------------------------------------------------------ program constants
POST_LIFETIME_MINUTES == 60
GRACE_MINUTES == 15
max_retries == 3
max_instances == 1

Users == 1..NumUsers
PostIds == 1..MaxPosts
Keys == {"south", "bazaar", "north"}
Roles == {"driver", "passenger"}

\* ---------------------------------------------------------------- helpers
ToSet(s) == {s[i] : i \in 1..Len(s)}

Min(S) == CHOOSE x \in S : \A y \in S : x <= y

Max(S) == CHOOSE x \in S : \A y \in S : x >= y

\* key lists as generate_keys stores them: no key occurs twice
KeyLists == {s \in UNION {[1..n -> Keys] : n \in 0..MaxLen} :
               \A i, j \in 1..Len(s) : i # j => s[i] # s[j]}

\* ------------------------------------------------- services/matching.py
check_subscription_match_overlap(keys_from_sub, keys_to_sub, keys_from_post, keys_to_post) ==
    LET from_match == ToSet(keys_from_sub) \cap ToSet(keys_from_post) # {}
        to_match == ToSet(keys_to_sub) \cap ToSet(keys_to_post) # {}
    IN from_match /\ to_match

check_subscription_match(keys_from_sub, keys_to_sub, keys_from_post, keys_to_post) ==
    LET from_match == ToSet(keys_from_sub) \subseteq ToSet(keys_from_post)
        to_match == ToSet(keys_to_sub) \subseteq ToSet(keys_to_post)
    IN from_match /\ to_match

\* the subscriptions of the author of the post are not left out
RECURSIVE find_matching_subscriptions_any_owner(_, _)
find_matching_subscriptions_any_owner(subs, post) ==
    IF subs = << >> THEN << >>
    ELSE LET sub == Head(subs)
             from_match == ToSet(sub.keys_from) \subseteq ToSet(post.keys_from)
             to_match == ToSet(sub.keys_to) \subseteq ToSet(post.keys_to)
             rest == find_matching_subscriptions_any_owner(Tail(subs), post)
         IN IF from_match /\ to_match
            THEN <<sub.user_id>> \o rest
            ELSE rest

\* the user ids of the matching subscriptions, one per subscription row,
\* in table order (a user with two matching subscriptions occurs twice)
RECURSIVE find_matching_subscriptions(_, _)
find_matching_subscriptions(subs, post) ==
    IF subs = << >> THEN << >>
    ELSE LET sub == Head(subs)
             from_match == ToSet(sub.keys_from) \subseteq ToSet(post.keys_from)
             to_match == ToSet(sub.keys_to) \subseteq ToSet(post.keys_to)
             rest == find_matching_subscriptions(Tail(subs), post)
         IN IF sub.user_id # post.author_id /\ from_match /\ to_match
            THEN <<sub.user_id>> \o rest
            ELSE rest

\* each leg is contained one way or the other, not both legs the same way
routes_match_per_leg(post, candidate_post) ==
    LET from_1 == ToSet(post.keys_from) \subseteq ToSet(candidate_post.keys_from)
        from_2 == ToSet(candidate_post.keys_from) \subseteq ToSet(post.keys_from)
        to_1 == ToSet(post.keys_to) \subseteq ToSet(candidate_post.keys_to)
        to_2 == ToSet(candidate_post.keys_to) \subseteq ToSet(post.keys_to)
    IN (from_1 \/ from_2) /\ (to_1 \/ to_2)

\* only the case of the post being the more general one is accepted
routes_match_one_way(post, candidate_post) ==
    /\ ToSet(post.keys_from) \subseteq ToSet(candidate_post.keys_from)
    /\ ToSet(post.keys_to) \subseteq ToSet(candidate_post.keys_to)

routes_match(post, candidate_post) ==
    LET match_1 == /\ ToSet(post.keys_from) \subseteq ToSet(candidate_post.keys_from)
                   /\ ToSet(post.keys_to) \subseteq ToSet(candidate_post.keys_to)
        match_2 == /\ ToSet(candidate_post.keys_from) \subseteq ToSet(post.keys_from)
                   /\ ToSet(candidate_post.keys_to) \subseteq ToSet(post.keys_to)
    IN match_1 \/ match_2

\* the legs are also compared crosswise, so that a route and its reverse
\* are taken for the same route
find_matching_posts_undirected(table, post) ==
    LET opposite_role == IF post.role = "driver" THEN "passenger" ELSE "driver"
    IN {q \in DOMAIN table :
          /\ table[q].role = opposite_role
          /\ table[q].status = "active"
          /\ table[q].author_id # post.author_id
          /\ \/ routes_match(post, table[q])
             \/ /\ ToSet(post.keys_from) \subseteq ToSet(table[q].keys_to)
                /\ ToSet(post.keys_to) \subseteq ToSet(table[q].keys_from)}

\* ids of the active posts of the opposite role and another author whose
\* route matches the route of post
find_matching_posts(table, post) ==
    LET opposite_role == IF post.role = "driver" THEN "passenger" ELSE "driver"
    IN {q \in DOMAIN table :
          /\ table[q].role = opposite_role
          /\ table[q].status = "active"
          /\ table[q].author_id # post.author_id
          /\ routes_match(post, table[q])}

\* services/keys_generator.py
validate_route_keys(keys_from, keys_to) == Len(keys_from) > 0 /\ Len(keys_to) > 0

\* the rows of table users, in the order of their ids
users_table == [uid \in 1..NumUsers |-> uid]

\* to_notify_ids is returned as it is: one entry per matching subscription
get_users_to_notify_per_subscription(log, post_id, matching_user_ids) ==
    LET already_notified == {e.recipient_id : e \in {x \in log : x.post_id = post_id}}
        NotNotified(uid) == uid \notin already_notified
    IN SelectSeq(matching_user_ids, NotNotified)

\* The candidates without a ledger row of the post are kept in
\* to_notify_ids, one entry per matching subscription; the users returned
\* are the rows of table users whose id is IN that list.
get_users_to_notify(log, post_id, matching_user_ids) ==
    LET already_notified == {e.recipient_id : e \in {x \in log : x.post_id = post_id}}
        NotNotified(uid) == uid \notin already_notified
        to_notify_ids == SelectSeq(matching_user_ids, NotNotified)
        InList(uid) == uid \in ToSet(to_notify_ids)
    IN SelectSeq(users_table, InList)

\* ------------------------------------------------------------------ state
VARIABLES
    now,              \* datetime.utcnow(), in minutes
    posts,            \* table posts: sequence of rows, the id is the index
    subscriptions,    \* table subscriptions: sequence of rows
    ledger,           \* table notifications_log: set of rows
    queue,            \* Celery queue of send_match_notification tasks (bag)
    inbox,            \* match notifications delivered to users, not retracted
    channel,          \* ids of the messages that are live in the channel
    delivered,        \* deliveries about a post to a user since its last pause/delete
    expiration_notices, \* posts the last tick called send_expiration_notification.delay for
    reply,            \* the last operation and its outcome: the callback and
                      \* its answer (applied, conflict, not_found), or the
                      \* task or tick that ran; user_id is the caller where
                      \* the handler looks at it, post_id the post acted on,
                      \* sent whether its channel calls went through
    revoked,          \* the ledger rows the last pause or delete removed
    m_args,           \* arguments of the last call of a matching predicate
    m_call,           \* the matching predicate that was called
    m_result,         \* what it returned
    fsm,              \* aiogram FSMContext of each user: dialog state and data
    sessions,         \* confirm_subscription handlers waiting at session.commit() (bag)
    sweeps,           \* runs of check_expired_posts between their SELECT and their commit
    orders,           \* table orders of database.py: sequence of rows, the id is the index
    responding,       \* respond_to_order handlers that passed their checks (bag)
    contacts,         \* how often the contacts of each order were exchanged
    ratings,          \* table ratings: set of rows
    rating_tasks,     \* schedule_rating_request tasks waiting for their countdown (bag)
    rating_sent,      \* rating requests sent to users (bag)
    contact_shown,    \* ids of the notifications that were edited into the contact card
    steps             \* operations executed so far

dbvars == <<posts, subscriptions, ledger>>
tgvars == <<queue, inbox, channel, delivered, expiration_notices, revoked>>
mvars == <<m_args, m_call, m_result>>
svars == <<fsm, sessions>>
ovars == <<orders, responding, contacts>>
rvars == <<ratings, rating_tasks, rating_sent, contact_shown>>
vars == <<now, posts, subscriptions, ledger, queue, inbox, channel, delivered,
          expiration_notices, reply, revoked, m_args, m_call, m_result, fsm,
          sessions, sweeps, orders, responding, contacts, ratings,
          rating_tasks, rating_sent, contact_shown, steps>>

\* sent is FALSE when a channel call of the operation (publish, edit,
\* unpublish) failed
ReplySent(op, user_id, post_id, result, sent) ==
    [op |-> op, user_id |-> user_id, post_id |-> post_id, result |-> result,
     sent |-> sent]

Reply(op, user_id, post_id, result) == ReplySent(op, user_id, post_id, result, TRUE)

\* every operation is counted; a run executes at most MaxSteps operations
Count == steps < MaxSteps /\ steps' = steps + 1

NoArgs == [a_from |-> << >>, a_to |-> << >>, b_from |-> << >>, b_to |-> << >>]

\* A state in the middle of the bot's life.  Author 1 has created post 1 and
\* paused it.  Author 2 has then created post 2, which was published as
\* channel message 1 and is still active; the discovery run of post 2 found
\* the subscription of user 1, and the dispatch task delivered message 1 to
\* user 1 and recorded it.  The clock starts at the deadline of both posts.
InitPosts ==
    << [author_id |-> 1, role |-> "driver",
        keys_from |-> <<"bazaar">>, keys_to |-> <<"north">>,
        status |-> "paused", channel_message_id |-> 0,
        expires_at |-> 0],
       [author_id |-> 2, role |-> "passenger",
        keys_from |-> <<"north", "bazaar">>, keys_to |-> <<"north", "center">>,
        status |-> "active", channel_message_id |-> 1,
        expires_at |-> 0] >>

\* user 2 is subscribed to the route of post 1, user 1 to two routes that
\* post 2 covers and to one that no post covers
InitSubscriptions ==
    << [user_id |-> 2, keys_from |-> <<"bazaar">>, keys_to |-> <<"north">>],
       [user_id |-> 1, keys_from |-> <<"north">>, keys_to |-> <<"north", "center">>],
       [user_id |-> 1, keys_from |-> <<"center", "bazaar">>, keys_to |-> <<"north">>],
       [user_id |-> 1, keys_from |-> <<"bazaar">>, keys_to |-> <<"center">>] >>

\* FSMContext after state.clear()
NoDialog == [state |-> "none", keys_from |-> << >>, keys_to |-> << >>]

\* The orders of database.py: user 1 and user 2 have one active order each.
InitOrders ==
    << [user_id |-> 1, status |-> "active"],
       [user_id |-> 2, status |-> "active"] >>

\* no respond in progress, no contact exchanged, no rating and no rating
\* request yet
InitOrdersAndRatings ==
    /\ orders = InitOrders
    /\ responding = EmptyBag
    /\ contacts = [o \in DOMAIN InitOrders |-> 0]
    /\ ratings = {}
    /\ rating_tasks = EmptyBag
    /\ rating_sent = EmptyBag
    /\ contact_shown = {}

\* everything but the subscriptions table
InitRest ==
    /\ InitOrdersAndRatings
    /\ now = 0
    /\ posts = InitPosts
    /\ ledger = {[post_id |-> 2, recipient_id |-> 1, notification_message_id |-> 1]}
    /\ queue = EmptyBag
    /\ inbox = {[post_id |-> 2, recipient_id |-> 1, message_id |-> 1]}
    /\ channel = {1}
    /\ delivered = [p \in PostIds |-> [u \in Users |->
                       IF p = 2 /\ u = 1 THEN 1 ELSE 0]]
    /\ expiration_notices = {}
    /\ steps = 0
    /\ reply = Reply("none", 0, 0, "none")
    /\ revoked = {}
    /\ fsm = [u \in Users |-> NoDialog]
    /\ sessions = EmptyBag
    /\ sweeps = << >>

InitDb ==
    /\ InitRest
    /\ subscriptions = InitSubscriptions

Init ==
    /\ InitDb
    /\ m_args = NoArgs
    /\ m_call = "none"
    /\ m_result = FALSE

\* ---------------------------------------------------- transport boundary
Task(post_id, recipient_id) ==
    [post_id |-> post_id, recipient_id |-> recipient_id, retries |-> 0]

UsedMsgIds ==
    {e.notification_message_id : e \in ledger} \cup {m.message_id : m \in inbox}
        \cup contact_shown

FreshMsgIds == (1..MaxMsg) \ UsedMsgIds

UsedChannelIds ==
    channel \cup {posts[q].channel_message_id : q \in DOMAIN posts}

FreshChannelIds == (1..MaxChan) \ UsedChannelIds

\* the wrapper lets the transport error through
channel_call_raises_on_failure(ok) == ~ ok

\* publish_to_channel, update_channel_message and delete_channel_message
\* catch every exception of the bot call, log it and return: no failure
\* reaches the caller
channel_call_raises(ok) == FALSE

\* get_session: an exception in the handler rolls the transaction back
rollback(op, user_id, post_id) ==
    /\ reply' = ReplySent(op, user_id, post_id, "error", FALSE)
    /\ UNCHANGED <<now, posts, subscriptions, ledger, queue, inbox, channel,
                   delivered, expiration_notices, revoked, mvars, svars, sweeps, ovars, rvars>>

\* publish_to_channel: the id of the new channel message, or 0 (None) when
\* the transport call fails
publish_to_channel(ok) == IF ok THEN Min(FreshChannelIds) ELSE 0

\* delete_channel_message: the channel after the call
delete_channel_message(chan, message_id, ok) ==
    IF ok THEN chan \ {message_id} ELSE chan

\* --------------------------------- services/notifications_cleaner.py
\* the ledger rows each cleaner selects
delete_notifications_for_post(log, post_id) ==
    {e \in log : e.post_id = post_id}

\* the filter is on the wrong column
delete_notifications_received_by_author_wrong_column(log, author_id) ==
    {e \in log : e.post_id = author_id}

delete_notifications_received_by_author(log, author_id) ==
    {e \in log : e.recipient_id = author_id}

\* the rows the cleaner does not delete
session_delete_if_retracted(rows, failed) ==
    {e \in rows : e.notification_message_id \notin failed}

\* session.delete in the cleaners: every selected row is deleted, whether
\* bot.delete_message on its message succeeded or is in failed
session_delete(rows, failed) == rows

\* bot.delete_message on the rows: the messages in failed stay delivered
Retract(box, rows, failed) ==
    {m \in box : ~ \E e \in rows :
        /\ e.notification_message_id = m.message_id
        /\ e.notification_message_id \notin failed}

ResetDelivered(d, post_id) == [d EXCEPT ![post_id] = [u \in Users |-> 0]]

\* --------------------------------------------------------- match discovery
\* The tasks one discovery run hands to send_match_notification.delay for
\* post post_id of table: one per user returned by get_users_to_notify, and
\* for every matching post that has no ledger row yet one to its author
\* about post_id and one to the author of post_id about the matching post.
Discovery(table, log, post_id) ==
    LET post == table[post_id]
        matching_user_ids == find_matching_subscriptions(subscriptions, post)
        users_to_notify == get_users_to_notify(log, post_id, matching_user_ids)
        matching_posts == find_matching_posts(table, post)
        fresh == {q \in matching_posts :
                    ~ \E e \in log : /\ e.post_id = post_id
                                     /\ e.recipient_id = table[q].author_id}
        to_subscribers == [t \in {Task(post_id, u) : u \in ToSet(users_to_notify)} |->
                             Cardinality({i \in 1..Len(users_to_notify) :
                                            t = Task(post_id, users_to_notify[i])})]
        to_authors == [t \in {Task(post_id, table[q].author_id) : q \in fresh} |->
                         Cardinality({q \in fresh : t = Task(post_id, table[q].author_id)})]
        to_self == SetToBag({Task(q, post.author_id) : q \in fresh})
    IN to_subscribers (+) to_authors (+) to_self

\* the query looks at the post itself instead of the author's other posts
ExistingActive_only_self(table, author_id, except) ==
    {q \in DOMAIN table : /\ table[q].author_id = author_id
                          /\ table[q].status = "active"
                          /\ q = except}

ExistingActive(table, author_id, except) ==
    {q \in DOMAIN table : /\ table[q].author_id = author_id
                          /\ table[q].status = "active"
                          /\ q # except}

\* ------------------------------------- handlers/my_posts.py, post_action:
post_action_not_found(p) ==
    /\ Count
    /\ p \notin DOMAIN posts
    /\ reply' = Reply("post_action", 0, p, "not_found")
    /\ UNCHANGED <<now, dbvars, tgvars, mvars, svars, sweeps, ovars, rvars>>

post_action_pause(p) ==
    /\ Count
    /\ p \in DOMAIN posts
    /\ \E ok \in BOOLEAN :
         LET post == posts[p]
             for_post == delete_notifications_for_post(ledger, p)
             received == delete_notifications_received_by_author(ledger \ for_post, post.author_id)
             rows == for_post \cup received
         IN /\ (post.channel_message_id = 0 => ok)
            /\ IF channel_call_raises(ok)
               THEN rollback("pause", 0, p)
               ELSE \E failed \in SUBSET {e.notification_message_id : e \in rows} :
                      /\ posts' = [posts EXCEPT ![p].status = "paused",
                                                ![p].channel_message_id = 0]
                      /\ channel' = IF post.channel_message_id # 0
                                    THEN delete_channel_message(channel, post.channel_message_id, ok)
                                    ELSE channel
                      /\ inbox' = Retract(inbox, rows, failed)
                      /\ ledger' = ledger \ session_delete(rows, failed)
                      /\ revoked' = ledger \ ledger'
                      /\ delivered' = ResetDelivered(delivered, p)
                      /\ reply' = ReplySent("pause", 0, p, "applied", ok)
                      /\ UNCHANGED <<now, subscriptions, queue, expiration_notices, mvars, svars, sweeps, ovars, rvars>>

post_action_resume(p) ==
    /\ Count
    /\ p \in DOMAIN posts
    /\ LET post == posts[p]
       IN IF ExistingActive(posts, post.author_id, p) # {}
          THEN /\ reply' = Reply("resume", 0, p, "conflict")
               /\ UNCHANGED <<now, dbvars, tgvars, mvars, svars, sweeps, ovars, rvars>>
          ELSE \E ok \in BOOLEAN :
                 LET msg_id == publish_to_channel(ok)
                     table == [posts EXCEPT ![p].status = "active",
                                            ![p].channel_message_id =
                                                IF msg_id # 0 THEN msg_id ELSE @]
                     tasks == Discovery(table, ledger, p)
                 IN /\ (ok => FreshChannelIds # {})
                    /\ BagCardinality(queue (+) tasks) <= MaxQueue
                    /\ IF channel_call_raises(ok)
                       THEN rollback("resume", 0, p)
                       ELSE /\ posts' = table
                            /\ channel' = IF msg_id # 0 THEN channel \cup {msg_id} ELSE channel
                            /\ queue' = queue (+) tasks
                            /\ reply' = ReplySent("resume", 0, p, "applied", ok)
                            /\ UNCHANGED <<now, subscriptions, ledger, inbox, delivered,
                                           expiration_notices, revoked, mvars, svars, sweeps, ovars, rvars>>

\* The extend that runs match discovery as a resume does.
post_action_extend_rediscovering(p) ==
    /\ Count
    /\ p \in DOMAIN posts
    /\ LET post == posts[p]
           table == [posts EXCEPT ![p].expires_at = now + POST_LIFETIME_MINUTES,
                                  ![p].status = "active"]
           tasks == Discovery(table, ledger, p)
       IN IF post.status = "paused" /\ ExistingActive(posts, post.author_id, p) # {}
          THEN /\ reply' = Reply("extend", 0, p, "conflict")
               /\ UNCHANGED <<now, dbvars, tgvars, mvars, svars, sweeps, ovars, rvars>>
          ELSE /\ BagCardinality(queue (+) tasks) <= MaxQueue
               /\ posts' = table
               /\ queue' = queue (+) tasks
               /\ reply' = Reply("extend", 0, p, "applied")
               /\ UNCHANGED <<now, subscriptions, ledger, inbox, channel, delivered,
                              expiration_notices, revoked, mvars, svars, sweeps, ovars, rvars>>

post_action_extend(p) ==
    /\ Count
    /\ p \in DOMAIN posts
    /\ LET post == posts[p]
       IN IF post.status = "paused" /\ ExistingActive(posts, post.author_id, p) # {}
          THEN /\ reply' = Reply("extend", 0, p, "conflict")
               /\ UNCHANGED <<now, dbvars, tgvars, mvars, svars, sweeps, ovars, rvars>>
          ELSE /\ posts' = [posts EXCEPT ![p].expires_at = now + POST_LIFETIME_MINUTES,
                                         ![p].status = "active"]
               /\ reply' = Reply("extend", 0, p, "applied")
               /\ UNCHANGED <<now, subscriptions, ledger, tgvars, mvars, svars, sweeps, ovars, rvars>>

post_action_delete(p) ==
    /\ Count
    /\ p \in DOMAIN posts
    /\ \E ok \in BOOLEAN :
         LET post == posts[p]
             for_post == delete_notifications_for_post(ledger, p)
             received == delete_notifications_received_by_author(ledger \ for_post, post.author_id)
             rows == for_post \cup received
         IN /\ (post.channel_message_id = 0 => ok)
            /\ IF channel_call_raises(ok)
               THEN rollback("delete", 0, p)
               ELSE \E failed \in SUBSET {e.notification_message_id : e \in rows} :
                      /\ posts' = [posts EXCEPT ![p].status = "deleted"]
                      /\ channel' = IF post.channel_message_id # 0
                                    THEN delete_channel_message(channel, post.channel_message_id, ok)
                                    ELSE channel
                      /\ inbox' = Retract(inbox, rows, failed)
                      /\ ledger' = ledger \ session_delete(rows, failed)
                      /\ revoked' = ledger \ ledger'
                      /\ delivered' = ResetDelivered(delivered, p)
                      /\ reply' = ReplySent("delete", 0, p, "applied", ok)
                      /\ UNCHANGED <<now, subscriptions, queue, expiration_notices, mvars, svars, sweeps, ovars, rvars>>

\* ---------------------------------------------- handlers/callbacks.py
recreate_post(u, old) ==
    /\ Count
    /\ IF old \notin DOMAIN posts
       THEN /\ reply' = Reply("recreate", u, old, "not_found")
            /\ UNCHANGED <<now, dbvars, tgvars, mvars, svars, sweeps, ovars, rvars>>
       ELSE IF ExistingActive(posts, u, 0) # {}
       THEN /\ reply' = Reply("recreate", u, old, "conflict")
            /\ UNCHANGED <<now, dbvars, tgvars, mvars, svars, sweeps, ovars, rvars>>
       ELSE \E ok \in BOOLEAN :
              LET old_post == posts[old]
                  new_id == Len(posts) + 1
                  msg_id == publish_to_channel(ok)
                  new_post == [author_id |-> u, role |-> old_post.role,
                               keys_from |-> old_post.keys_from,
                               keys_to |-> old_post.keys_to,
                               status |-> "active", channel_message_id |-> msg_id,
                               expires_at |-> now + POST_LIFETIME_MINUTES]
                  table == Append(posts, new_post)
                  tasks == Discovery(table, ledger, new_id)
              IN /\ new_id <= MaxPosts
                 /\ (ok => FreshChannelIds # {})
                 /\ BagCardinality(queue (+) tasks) <= MaxQueue
                 /\ IF channel_call_raises(ok)
                    THEN rollback("recreate", u, old)
                    ELSE /\ posts' = table
                         /\ channel' = IF msg_id # 0 THEN channel \cup {msg_id} ELSE channel
                         /\ queue' = queue (+) tasks
                         /\ reply' = ReplySent("recreate", u, new_id, "applied", ok)
                         /\ UNCHANGED <<now, subscriptions, ledger, inbox, delivered,
                                        expiration_notices, revoked, mvars, svars, sweeps, ovars, rvars>>

pause_current_post(u) ==
    /\ Count
    /\ LET active == ExistingActive(posts, u, 0)
       IN IF active = {}
          THEN /\ reply' = Reply("pause", 0, 0, "not_found")
               /\ UNCHANGED <<now, dbvars, tgvars, mvars, svars, sweeps, ovars, rvars>>
          ELSE \E ok \in BOOLEAN :
                 LET p == Max(active)
                     post == posts[p]
                     for_post == delete_notifications_for_post(ledger, p)
                     received == delete_notifications_received_by_author(ledger \ for_post, post.author_id)
                     rows == for_post \cup received
                 IN /\ (post.channel_message_id = 0 => ok)
                    /\ IF channel_call_raises(ok)
                       THEN rollback("pause", 0, p)
                       ELSE \E failed \in SUBSET {e.notification_message_id : e \in rows} :
                              /\ posts' = [posts EXCEPT ![p].status = "paused",
                                                        ![p].channel_message_id = 0]
                              /\ channel' = IF post.channel_message_id # 0
                                            THEN delete_channel_message(channel, post.channel_message_id, ok)
                                            ELSE channel
                              /\ inbox' = Retract(inbox, rows, failed)
                              /\ ledger' = ledger \ session_delete(rows, failed)
                              /\ revoked' = ledger \ ledger'
                              /\ delivered' = ResetDelivered(delivered, p)
                              /\ reply' = ReplySent("pause", 0, p, "applied", ok)
                              /\ UNCHANGED <<now, subscriptions, queue, expiration_notices, mvars, svars, sweeps, ovars, rvars>>

delete_current_post(u) ==
    /\ Count
    /\ LET mine == {q \in DOMAIN posts : /\ posts[q].author_id = u
                                         /\ posts[q].status \in {"active", "paused"}}
       IN IF mine = {}
          THEN /\ reply' = Reply("delete", 0, 0, "not_found")
               /\ UNCHANGED <<now, dbvars, tgvars, mvars, svars, sweeps, ovars, rvars>>
          ELSE \E ok \in BOOLEAN :
                 LET p == Max(mine)
                     post == posts[p]
                     rows == delete_notifications_for_post(ledger, p)
                 IN /\ (post.channel_message_id = 0 => ok)
                    /\ IF channel_call_raises(ok)
                       THEN rollback("delete", 0, p)
                       ELSE \E failed \in SUBSET {e.notification_message_id : e \in rows} :
                              /\ posts' = [posts EXCEPT ![p].status = "deleted"]
                              /\ channel' = IF post.channel_message_id # 0
                                            THEN delete_channel_message(channel, post.channel_message_id, ok)
                                            ELSE channel
                              /\ inbox' = Retract(inbox, rows, failed)
                              /\ ledger' = ledger \ session_delete(rows, failed)
                              /\ revoked' = ledger \ ledger'
                              /\ delivered' = ResetDelivered(delivered, p)
                              /\ reply' = ReplySent("delete", 0, p, "applied", ok)
                              /\ UNCHANGED <<now, subscriptions, queue, expiration_notices, mvars, svars, sweeps, ovars, rvars>>

\* ------------------------------------------------- workers/expiration.py
\* the status filter is dropped
expired_posts_any_status(table, t) ==
    {q \in DOMAIN table : table[q].expires_at < t}

\* only the posts whose deadline passed since the tick before are selected
expired_posts_since_last_tick(table, t) ==
    {q \in DOMAIN table : /\ table[q].status = "active"
                          /\ table[q].expires_at < t
                          /\ table[q].expires_at >= t - Step}

\* pass 1 of a tick: the active posts whose deadline is in the past
expired_posts(table, t) ==
    {q \in DOMAIN table : table[q].status = "active" /\ table[q].expires_at < t}

\* the grace period is not waited for
old_expired_posts_no_grace(table, t) ==
    {q \in DOMAIN table : /\ table[q].status = "expired"
                          /\ table[q].expires_at < t
                          /\ table[q].channel_message_id # 0}

\* pass 2 of a tick: the expired posts past the grace period that still
\* have a channel message
old_expired_posts(table, t) ==
    {q \in DOMAIN table : /\ table[q].status = "expired"
                          /\ table[q].expires_at < t - GRACE_MINUTES
                          /\ table[q].channel_message_id # 0}

\* the posts of pass 1 that have a channel message to edit
published(table, expired) == {q \in expired : table[q].channel_message_id # 0}

\* the table posts a tick at time t commits when none of its calls raises:
\* pass 1 writes the status, pass 2 reads the table with these statuses
\* (the session flushes before the query) and clears the references
sweep_posts(table, t) ==
    LET expired == expired_posts(table, t)
        marked == [q \in DOMAIN table |->
                     IF q \in expired THEN [table[q] EXCEPT !.status = "expired"]
                     ELSE table[q]]
        old == old_expired_posts(marked, t)
    IN [q \in DOMAIN table |->
          IF q \in old THEN [marked[q] EXCEPT !.channel_message_id = 0]
          ELSE marked[q]]

\* The tick with the sweeper taking the notifications of an expired post
\* back as a pause does.
check_expired_posts_revoking ==
    /\ Count
    /\ LET expired == expired_posts(posts, now)
           table == [q \in DOMAIN posts |->
                       IF q \in expired THEN [posts[q] EXCEPT !.status = "expired"]
                       ELSE posts[q]]
           old == old_expired_posts(table, now)
           rows == {e \in ledger : e.post_id \in expired}
       IN /\ \E failed \in SUBSET old :
               /\ posts' = [q \in DOMAIN posts |->
                              IF q \in old THEN [table[q] EXCEPT !.channel_message_id = 0]
                              ELSE table[q]]
               /\ channel' = channel \ {table[q].channel_message_id : q \in old \ failed}
               /\ reply' = ReplySent("tick", 0, 0, "applied", failed = {})
          /\ expiration_notices' = expired
          /\ ledger' = ledger \ rows
          /\ inbox' = Retract(inbox, rows, {})
          /\ UNCHANGED <<now, subscriptions, queue, delivered, revoked, mvars, svars, sweeps, ovars, rvars>>

\* One run of the scheduler job.  edit_failed are the posts of pass 1 whose
\* channel message could not be edited, failed the posts of pass 2 whose
\* channel message could not be deleted.  A call that raised inside the
\* per-post try block would skip the rest of the block: the notice of
\* pass 1, the clearing of the reference of pass 2.
check_expired_posts ==
    /\ Count
    /\ LET expired == expired_posts(posts, now)
           table == [q \in DOMAIN posts |->
                       IF q \in expired THEN [posts[q] EXCEPT !.status = "expired"]
                       ELSE posts[q]]
           old == old_expired_posts(table, now)
       IN \E edit_failed \in SUBSET published(posts, expired), failed \in SUBSET old :
            LET raised_1 == {q \in edit_failed : channel_call_raises(FALSE)}
                raised_2 == {q \in failed : channel_call_raises(FALSE)}
            IN /\ posts' = [q \in DOMAIN posts |->
                              IF q \in old \ raised_2
                              THEN [table[q] EXCEPT !.channel_message_id = 0]
                              ELSE table[q]]
               /\ channel' = channel \ {table[q].channel_message_id : q \in old \ failed}
               /\ expiration_notices' = expired \ raised_1
               /\ reply' = ReplySent("tick", 0, 0, "applied",
                                     edit_failed = {} /\ failed = {})
               /\ UNCHANGED <<now, subscriptions, ledger, queue, inbox, delivered,
                              revoked, mvars, svars, sweeps, ovars, rvars>>

extend_post(p) ==
    /\ Count
    /\ p \in DOMAIN posts
    /\ posts' = [posts EXCEPT ![p].expires_at = now + POST_LIFETIME_MINUTES,
                              ![p].status = "active"]
    /\ reply' = Reply("extend_post", 0, p, "applied")
    /\ UNCHANGED <<now, subscriptions, ledger, tgvars, mvars, svars, sweeps, ovars, rvars>>

AdvanceTime ==
    /\ Count
    /\ now + Step <= MaxTime
    /\ now' = now + Step
    /\ reply' = Reply("clock", 0, 0, "applied")
    /\ UNCHANGED <<dbvars, tgvars, mvars, svars, sweeps, ovars, rvars>>

\* ------------------------------------------------ tasks/notifications.py
\* the table has no unique constraint
insert_notification_log_unconstrained(log, row) == log \cup {row}

\* session.add + commit under uq_notification(post_id, recipient_id): the
\* IntegrityError of a duplicate is caught and the table is left as it was
insert_notification_log(log, row) ==
    IF \E e \in log : e.post_id = row.post_id /\ e.recipient_id = row.recipient_id
    THEN log
    ELSE log \cup {row}

\* self.retry: the task is queued again until max_retries is used up
retry(q, t) ==
    IF t.retries < max_retries
    THEN q (+) SetToBag({[t EXCEPT !.retries = @ + 1]})
    ELSE q

\* the database error reaches the task's outer handler
on_db_error_retry(q, t) == retry(q, t)

\* except Exception as db_error: the failed insert is logged, the task
\* returns normally and is not queued again
on_db_error(q, t) == q

\* The task with the row written before the send is attempted.
send_match_notification_record_first(t, outcome) ==
    /\ Count
    /\ BagIn(t, queue)
    /\ FreshMsgIds # {}
    /\ LET rest == queue (-) SetToBag({t})
           msg == Min(FreshMsgIds)
           message == [post_id |-> t.post_id, recipient_id |-> t.recipient_id,
                       message_id |-> msg]
           row == [post_id |-> t.post_id, recipient_id |-> t.recipient_id,
                   notification_message_id |-> msg]
       IN /\ ledger' = insert_notification_log(ledger, row)
          /\ IF outcome = "error"
             THEN /\ queue' = retry(rest, t)
                  /\ UNCHANGED <<inbox, delivered>>
             ELSE /\ inbox' = inbox \cup {message}
                  /\ delivered' = [delivered EXCEPT ![t.post_id][t.recipient_id] = @ + 1]
                  /\ queue' = IF outcome = "ok" THEN rest ELSE retry(rest, t)
    /\ reply' = Reply("send_match_notification", t.recipient_id, t.post_id, outcome)
    /\ UNCHANGED <<now, posts, subscriptions, channel, expiration_notices, revoked, mvars, svars, sweeps, ovars, rvars>>

\* outcome "ok": the message is delivered and its id returned;
\* "error": nothing is delivered and the send raises;
\* "timeout": the message is delivered but the send raises
send_match_notification(t, outcome) ==
    /\ Count
    /\ BagIn(t, queue)
    /\ LET rest == queue (-) SetToBag({t})
           msg == Min(FreshMsgIds)
           message == [post_id |-> t.post_id, recipient_id |-> t.recipient_id,
                       message_id |-> msg]
           row == [post_id |-> t.post_id, recipient_id |-> t.recipient_id,
                   notification_message_id |-> msg]
           duplicate == \E e \in ledger : /\ e.post_id = t.post_id
                                          /\ e.recipient_id = t.recipient_id
       IN CASE outcome = "ok" ->
                 /\ FreshMsgIds # {}
                 /\ inbox' = inbox \cup {message}
                 /\ delivered' = [delivered EXCEPT ![t.post_id][t.recipient_id] = @ + 1]
                 /\ ledger' = insert_notification_log(ledger, row)
                 /\ queue' = IF duplicate THEN on_db_error(rest, t) ELSE rest
            [] outcome = "timeout" ->
                 /\ FreshMsgIds # {}
                 /\ inbox' = inbox \cup {message}
                 /\ delivered' = [delivered EXCEPT ![t.post_id][t.recipient_id] = @ + 1]
                 /\ queue' = retry(rest, t)
                 /\ UNCHANGED ledger
            [] outcome = "error" ->
                 /\ queue' = retry(rest, t)
                 /\ UNCHANGED <<inbox, delivered, ledger>>
    /\ reply' = Reply("send_match_notification", t.recipient_id, t.post_id, outcome)
    /\ UNCHANGED <<now, posts, subscriptions, channel, expiration_notices, revoked, mvars, svars, sweeps, ovars, rvars>>

Outcomes == {"ok", "timeout", "error"}

Next ==
    \/ \E p \in PostIds : post_action_not_found(p)
    \/ \E p \in PostIds : post_action_pause(p)
    \/ \E p \in PostIds : post_action_resume(p)
    \/ \E p \in PostIds : post_action_extend(p)
    \/ \E p \in PostIds : post_action_delete(p)
    \/ \E u \in Users, p \in PostIds : recreate_post(u, p)
    \/ \E u \in Users : pause_current_post(u)
    \/ \E u \in Users : delete_current_post(u)
    \/ check_expired_posts
    \/ \E p \in PostIds : extend_post(p)
    \/ AdvanceTime
    \/ \E t \in BagToSet(queue), outcome \in Outcomes : send_match_notification(t, outcome)

Spec == Init /\ [][Next]_vars

\* ------------------------------------------- the matching predicates alone
\* A subscription, or a post of author 1, with route a; a post of author 2
\* of the opposite role with route b.  The key lists are drawn from
\* KeyLists; every predicate of services/matching.py is then called on them.
MatchArgs == [a_from : KeyLists, a_to : KeyLists, b_from : KeyLists, b_to : KeyLists]

ArgSubscription ==
    [user_id |-> 2, keys_from |-> m_args.a_from, keys_to |-> m_args.a_to]

ArgPost(author_id, role, keys_from, keys_to) ==
    [author_id |-> author_id, role |-> role, keys_from |-> keys_from,
     keys_to |-> keys_to, status |-> "active", channel_message_id |-> 0,
     expires_at |-> POST_LIFETIME_MINUTES]

InitMatch ==
    /\ InitDb
    /\ m_args \in MatchArgs
    /\ m_call = "none"
    /\ m_result = FALSE

call_check_subscription_match ==
    /\ m_call' = "check_subscription_match"
    /\ m_result' = check_subscription_match(m_args.a_from, m_args.a_to,
                                            m_args.b_from, m_args.b_to)
    /\ UNCHANGED <<now, dbvars, tgvars, reply, m_args, svars, sweeps, ovars, rvars, steps>>

call_find_matching_subscriptions ==
    /\ m_call' = "find_matching_subscriptions"
    /\ m_result' = find_matching_subscriptions(
                       <<ArgSubscription>>,
                       ArgPost(1, "driver", m_args.b_from, m_args.b_to))
    /\ UNCHANGED <<now, dbvars, tgvars, reply, m_args, svars, sweeps, ovars, rvars, steps>>

\* both posts carry routes that validate_route_keys accepts
call_find_matching_posts ==
    /\ validate_route_keys(m_args.a_from, m_args.a_to)
    /\ validate_route_keys(m_args.b_from, m_args.b_to)
    /\ m_call' = "find_matching_posts"
    /\ m_result' = find_matching_posts(
                       <<ArgPost(1, "driver", m_args.a_from, m_args.a_to),
                         ArgPost(2, "passenger", m_args.b_from, m_args.b_to)>>,
                       ArgPost(1, "driver", m_args.a_from, m_args.a_to))
    /\ UNCHANGED <<now, dbvars, tgvars, reply, m_args, svars, sweeps, ovars, rvars, steps>>

NextMatch ==
    \/ call_check_subscription_match
    \/ call_find_matching_subscriptions
    \/ call_find_matching_posts

SpecMatch == InitMatch /\ [][NextMatch]_vars

\* ------------------------------------------- services/keys_generator.py
\* A text is a sequence of characters.  The characters of the model: two
\* lowercase letters, an uppercase letter, a digit and the blank.
Chars == {"a", "b", "A", "1", " "}

\* the letters the character class of the regular expression keeps
Letters == {"a", "b", "A"}

\* \s
Whitespace == {" "}

Texts == UNION {[1..n -> Chars] : n \in 0..MaxText}

\* re.sub(r'[^a-zA-Z...\s]', ' ', text)
re_sub(text) ==
    [i \in 1..Len(text) |->
        IF text[i] \in Letters \cup Whitespace THEN text[i] ELSE " "]

\* str.lower()
str_lower(text) ==
    [i \in 1..Len(text) |-> IF text[i] = "A" THEN "a" ELSE text[i]]

\* str.split(): the runs between whitespace; word is the run being read
RECURSIVE str_split(_, _, _)
str_split(text, word, words) ==
    IF text = << >>
    THEN IF word = << >> THEN words ELSE Append(words, word)
    ELSE IF Head(text) \in Whitespace
         THEN str_split(Tail(text), << >>,
                        IF word = << >> THEN words ELSE Append(words, word))
         ELSE str_split(Tail(text), Append(word, Head(text)), words)

\* [word for word in words if len(word) >= 2]
long_enough(word) == Len(word) >= 2

\* the loop over keys with the set seen
RECURSIVE first_seen(_, _, _)
first_seen(keys, seen, unique) ==
    IF keys = << >> THEN unique
    ELSE IF Head(keys) \in seen
         THEN first_seen(Tail(keys), seen, unique)
         ELSE first_seen(Tail(keys), seen \cup {Head(keys)},
                         Append(unique, Head(keys)))

\* the list is returned as filtered
unique_keys_as_filtered(keys) == keys

unique_keys(keys) == first_seen(keys, {}, << >>)

generate_keys(text) ==
    IF text = << >> THEN << >>
    ELSE LET text_clean == re_sub(text)
             words == str_split(str_lower(text_clean), << >>, << >>)
             keys == SelectSeq(words, long_enough)
         IN unique_keys(keys)

\* ------------------------------------------------- the key generator alone
InitKeys ==
    /\ InitDb
    /\ m_args \in [text : Texts]
    /\ m_call = "none"
    /\ m_result = << >>

call_generate_keys ==
    /\ m_call = "none"
    /\ m_call' = "generate_keys"
    /\ m_result' = generate_keys(m_args.text)
    /\ UNCHANGED <<now, dbvars, tgvars, reply, m_args, svars, sweeps, ovars, rvars, steps>>

NextKeys == call_generate_keys

SpecKeys == InitKeys /\ [][NextKeys]_vars


\* ------------------------------------------- handlers/subscriptions.py
\* the route texts a user types: "ab ba", "ba ab", "ab" and "1"
RouteTexts == { <<"a", "b", " ", "b", "a">>, <<"b", "a", " ", "a", "b">>,
                <<"a", "b">>, <<"1">> }

\* the texts of the reply keyboard buttons
Cancel == <<"Cancel">>

Back == <<"Back">>

CountSubs == steps < MaxSubSteps /\ steps' = steps + 1

\* what the handlers of this dialog leave alone
no_post_vars == <<now, posts, ledger, tgvars, mvars, sweeps, ovars, rvars>>

\* sub:add
start_add_subscription(u) ==
    /\ CountSubs
    /\ fsm' = [fsm EXCEPT ![u].state = "adding_from"]
    /\ reply' = Reply("start_add_subscription", u, 0, "applied")
    /\ UNCHANGED <<subscriptions, sessions, no_post_vars>>

\* a text message in state adding_from
process_sub_from(u, text) ==
    /\ CountSubs
    /\ fsm[u].state = "adding_from"
    /\ IF text = Cancel
       THEN /\ fsm' = [fsm EXCEPT ![u] = NoDialog]
            /\ reply' = Reply("process_sub_from", u, 0, "cancelled")
       ELSE /\ fsm' = [fsm EXCEPT ![u].keys_from = generate_keys(text),
                                  ![u].state = "adding_to"]
            /\ reply' = Reply("process_sub_from", u, 0, "applied")
    /\ UNCHANGED <<subscriptions, sessions, no_post_vars>>

\* a text message in state adding_to
process_sub_to(u, text) ==
    /\ CountSubs
    /\ fsm[u].state = "adding_to"
    /\ IF text = Cancel
       THEN /\ fsm' = [fsm EXCEPT ![u] = NoDialog]
            /\ reply' = Reply("process_sub_to", u, 0, "cancelled")
       ELSE IF text = Back
            THEN /\ fsm' = [fsm EXCEPT ![u].state = "adding_from"]
                 /\ reply' = Reply("process_sub_to", u, 0, "back")
            ELSE /\ fsm' = [fsm EXCEPT ![u].keys_to = generate_keys(text),
                                       ![u].state = "confirming_add"]
                 /\ reply' = Reply("process_sub_to", u, 0, "applied")
    /\ UNCHANGED <<subscriptions, sessions, no_post_vars>>

\* UniqueConstraint("user_id", "keys_from", "keys_to") and the SELECT of
\* confirm_subscription: a stored row with the same user and equal arrays
uq_subscription_route(table, row) ==
    \E i \in 1..Len(table) :
       /\ table[i].user_id = row.user_id
       /\ table[i].keys_from = row.keys_from
       /\ table[i].keys_to = row.keys_to

\* sub:confirm in state confirming_add, up to session.commit(): the handler
\* answers at once when its SELECT finds the subscription, and goes on to
\* insert it otherwise
confirm_subscription(u) ==
    /\ CountSubs
    /\ fsm[u].state = "confirming_add"
    /\ LET subscription == [user_id |-> u, keys_from |-> fsm[u].keys_from,
                            keys_to |-> fsm[u].keys_to]
       IN IF uq_subscription_route(subscriptions, subscription)
          THEN /\ fsm' = [fsm EXCEPT ![u] = NoDialog]
               /\ reply' = Reply("confirm_subscription", u, 0, "exists")
               /\ UNCHANGED sessions
          ELSE /\ BagCardinality(sessions) < MaxSessions
               /\ sessions' = sessions (+) SetToBag({subscription})
               /\ reply' = Reply("confirm_subscription", u, 0, "select")
               /\ UNCHANGED fsm
    /\ UNCHANGED <<subscriptions, no_post_vars>>

\* session.commit() of a waiting handler and the rest of it: the insert
\* goes through or raises IntegrityError, then state.clear()
confirm_subscription_commit(u) ==
    /\ CountSubs
    /\ \E subscription \in BagToSet(sessions) :
          /\ subscription.user_id = u
          /\ sessions' = sessions (-) SetToBag({subscription})
          /\ fsm' = [fsm EXCEPT ![u] = NoDialog]
          /\ IF uq_subscription_route(subscriptions, subscription)
             THEN /\ reply' = Reply("confirm_subscription", u, 0, "exists")
                  /\ UNCHANGED subscriptions
             ELSE /\ Len(subscriptions) < MaxSubs
                  /\ subscriptions' = Append(subscriptions, subscription)
                  /\ reply' = Reply("confirm_subscription", u, 0, "created")
    /\ UNCHANGED no_post_vars

\* user 1 has subscribed to "ab ba" -> "ab" before
InitSubs ==
    /\ InitRest
    /\ subscriptions =
         << [user_id |-> 1,
             keys_from |-> generate_keys(<<"a", "b", " ", "b", "a">>),
             keys_to |-> generate_keys(<<"a", "b">>)] >>
    /\ m_args = NoArgs
    /\ m_call = "none"
    /\ m_result = FALSE

NextSubs ==
    \/ \E u \in Users : start_add_subscription(u)
    \/ \E u \in Users, text \in RouteTexts \cup {Cancel} : process_sub_from(u, text)
    \/ \E u \in Users, text \in RouteTexts \cup {Cancel, Back} : process_sub_to(u, text)
    \/ \E u \in Users : confirm_subscription(u)
    \/ \E u \in Users : confirm_subscription_commit(u)

SpecSubs == InitSubs /\ [][NextSubs]_vars

\* ------------------------------- workers/expiration.py, the job in time
\* A run of check_expired_posts is not one step of the event loop: between
\* its SELECT of the expired posts and its work on them it awaits the
\* channel call, and handlers run meanwhile.  A run in progress holds the
\* time it read and the rows its SELECT returned.

\* the scheduler starts a run whatever is running
can_submit_always(running) == TRUE

\* add_job(..., max_instances=1): the scheduler starts a run only while
\* fewer than max_instances runs of the job are in progress
can_submit(running) == running < max_instances

\* the first failing post ends the run
sweep_aborts_on_failure(failing) == failing # {}

\* try/except around the work on each post: the failure of one post is
\* logged and the loop goes on
sweep_aborts(failing) == FALSE

RemoveAt(seq, i) == SubSeq(seq, 1, i - 1) \o SubSeq(seq, i + 1, Len(seq))

\* the interval trigger fires: the run is started and reads the expired
\* posts, or it is skipped
check_expired_posts_start ==
    /\ Count
    /\ Len(sweeps) < MaxSweeps
    /\ IF can_submit(Len(sweeps))
       THEN /\ sweeps' = Append(sweeps, [now |-> now,
                                         expired_posts |-> expired_posts(posts, now)])
            /\ reply' = Reply("check_expired_posts", 0, 0, "selected")
       ELSE /\ reply' = Reply("check_expired_posts", 0, 0, "skipped")
            /\ UNCHANGED sweeps
    /\ UNCHANGED <<now, dbvars, tgvars, mvars, svars, ovars, rvars>>

\* the rest of a run: status = "expired" is written to every row the
\* SELECT returned, the notice is queued unless the post is in failing
\* (the block of the post raised), pass 2 purges, and the session commits
check_expired_posts_finish ==
    /\ Count
    /\ \E i \in 1..Len(sweeps) :
         LET run == sweeps[i]
             expired == run.expired_posts
             table == [q \in DOMAIN posts |->
                         IF q \in expired THEN [posts[q] EXCEPT !.status = "expired"]
                         ELSE posts[q]]
             old == old_expired_posts(table, run.now)
         IN \E failing \in SUBSET expired, failed \in SUBSET old :
              /\ sweeps' = RemoveAt(sweeps, i)
              /\ reply' = ReplySent("check_expired_posts", 0, 0, "finished",
                                    failing = {} /\ failed = {})
              /\ IF sweep_aborts(failing)
                 THEN UNCHANGED <<posts, channel, expiration_notices>>
                 ELSE /\ posts' = [q \in DOMAIN posts |->
                                     IF q \in old
                                     THEN [table[q] EXCEPT !.channel_message_id = 0]
                                     ELSE table[q]]
                      /\ channel' = channel \ {table[q].channel_message_id : q \in old \ failed}
                      /\ expiration_notices' = expired \ failing
    /\ UNCHANGED <<now, subscriptions, ledger, queue, inbox, delivered, revoked,
                   mvars, svars, ovars, rvars>>

\* Both authors have an active, published post past its deadline; each has
\* been notified about the post of the other.
InitSweep ==
    /\ InitOrdersAndRatings
    /\ now = Step
    /\ posts = [q \in 1..2 |->
                  [InitPosts[q] EXCEPT !.status = "active",
                                       !.channel_message_id = q]]
    /\ subscriptions = InitSubscriptions
    /\ ledger = {[post_id |-> 2, recipient_id |-> 1, notification_message_id |-> 1],
                 [post_id |-> 1, recipient_id |-> 2, notification_message_id |-> 2]}
    /\ queue = EmptyBag
    /\ inbox = {[post_id |-> 2, recipient_id |-> 1, message_id |-> 1],
                [post_id |-> 1, recipient_id |-> 2, message_id |-> 2]}
    /\ channel = {1, 2}
    /\ delivered = [p \in PostIds |-> [u \in Users |->
                       IF (p = 2 /\ u = 1) \/ (p = 1 /\ u = 2) THEN 1 ELSE 0]]
    /\ expiration_notices = {}
    /\ steps = 0
    /\ reply = Reply("none", 0, 0, "none")
    /\ revoked = {}
    /\ fsm = [u \in Users |-> NoDialog]
    /\ sessions = EmptyBag
    /\ sweeps = << >>
    /\ m_args = NoArgs
    /\ m_call = "none"
    /\ m_result = FALSE

NextSweep ==
    \/ check_expired_posts_start
    \/ check_expired_posts_finish
    \/ \E p \in PostIds : post_action_pause(p)
    \/ \E p \in PostIds : post_action_delete(p)
    \/ \E p \in PostIds : post_action_extend(p)
    \/ AdvanceTime

SpecSweep == InitSweep /\ [][NextSweep]_vars

\* ------------------------------------------------ handlers/profile.py
\* The row of user u in table users.  Each user starts with posts and
\* subscriptions, and in SpecProfile only delete_profile removes such rows
\* (together with the user), so the row exists while one of them does.
user_found(u) ==
    \/ \E q \in DOMAIN posts : posts[q].author_id = u
    \/ \E i \in 1..Len(subscriptions) : subscriptions[i].user_id = u

\* profile:delete_confirm.  The channel messages and the notifications of
\* the user's posts are taken back, then the user's subscriptions, ledger
\* rows and posts are removed with session.delete, and the user.  After it
\* posts is a function on the ids that are left.
delete_profile(u) ==
    /\ Count
    /\ IF ~ user_found(u)
       THEN /\ reply' = Reply("delete_profile", u, 0, "not_found")
            /\ UNCHANGED <<now, dbvars, tgvars, mvars, svars, sweeps, ovars, rvars>>
       ELSE LET mine == {q \in DOMAIN posts : posts[q].author_id = u}
                refs == {posts[q].channel_message_id : q \in mine} \ {0}
                for_posts == UNION {delete_notifications_for_post(ledger, q) : q \in mine}
                received == delete_notifications_received_by_author(ledger \ for_posts, u)
                rows == for_posts \cup received
                NotOfUser(sub) == sub.user_id # u
            IN \E not_deleted \in SUBSET refs,
                  failed \in SUBSET {e.notification_message_id : e \in rows} :
                 /\ channel' = channel \ (refs \ not_deleted)
                 /\ inbox' = Retract(inbox, rows, failed)
                 /\ ledger' = ledger \ session_delete(rows, failed)
                 /\ revoked' = ledger \ ledger'
                 /\ subscriptions' = SelectSeq(subscriptions, NotOfUser)
                 /\ posts' = [q \in DOMAIN posts \ mine |-> posts[q]]
                 /\ delivered' = [q \in PostIds |->
                                    IF q \in mine THEN [v \in Users |-> 0]
                                    ELSE delivered[q]]
                 /\ reply' = ReplySent("delete_profile", u, 0, "applied",
                                       not_deleted = {})
                 /\ UNCHANGED <<now, queue, expiration_notices, mvars, svars, sweeps, ovars, rvars>>

\* the profile handler next to the handlers of my_posts.py and the sweeper
NextProfile ==
    \/ \E u \in Users : delete_profile(u)
    \/ \E p \in PostIds : post_action_not_found(p)
    \/ \E p \in PostIds : post_action_pause(p)
    \/ \E p \in PostIds : post_action_extend(p)
    \/ \E p \in PostIds : post_action_delete(p)
    \/ check_expired_posts
    \/ AdvanceTime

SpecProfile == Init /\ [][NextProfile]_vars

\* ------------------------------ handlers/callback.py, database.py: orders
OrderIds == 1..MaxOrders

\* a run of the order handlers executes at most MaxOrderSteps steps
CountOrders == steps < MaxOrderSteps /\ steps' = steps + 1

\* update_order(order_id, status=...): UPDATE orders SET status = ? WHERE id = ?
update_order(table, order_id, status) == [table EXCEPT ![order_id].status = status]

take_order(table, order_id) == update_order(table, order_id, "taken")

cancel_order(table, order_id) == update_order(table, order_id, "cancelled")

\* get_active_order: the active order of the user (0: none)
get_active_order(table, u) ==
    LET active == {o \in DOMAIN table : table[o].user_id = u /\ table[o].status = "active"}
    IN IF active = {} THEN 0 ELSE Max(active)

\* respond_to_order up to callback.answer: the order is read and checked
\* (found, not the caller's own, active); a handler that passes waits at
\* its sends
respond_to_order(u, o) ==
    /\ CountOrders
    /\ IF o \notin DOMAIN orders
       THEN /\ reply' = Reply("respond", u, o, "not_found")
            /\ UNCHANGED responding
       ELSE IF orders[o].user_id = u
       THEN /\ reply' = Reply("respond", u, o, "own")
            /\ UNCHANGED responding
       ELSE IF orders[o].status # "active"
       THEN /\ reply' = Reply("respond", u, o, "inactive")
            /\ UNCHANGED responding
       ELSE /\ BagCardinality(responding) < MaxResponding
            /\ responding' = responding (+) SetToBag({[order_id |-> o, user_id |-> u]})
            /\ reply' = Reply("respond", u, o, "checked")
    /\ UNCHANGED <<now, dbvars, tgvars, mvars, svars, sweeps, orders, contacts, rvars>>

\* the rest of respond_to_order: both contact messages are sent and
\* take_order writes the status; when a send raises (sent is FALSE) the
\* handler answers with an error and take_order is not reached
respond_to_order_send(u, o) ==
    /\ CountOrders
    /\ BagIn([order_id |-> o, user_id |-> u], responding)
    /\ responding' = responding (-) SetToBag({[order_id |-> o, user_id |-> u]})
    /\ \E sent \in BOOLEAN :
         IF sent
         THEN /\ contacts' = [contacts EXCEPT ![o] = @ + 1]
              /\ orders' = take_order(orders, o)
              /\ reply' = Reply("respond", u, o, "taken")
         ELSE /\ reply' = ReplySent("respond", u, o, "error", FALSE)
              /\ UNCHANGED <<orders, contacts>>
    /\ UNCHANGED <<now, dbvars, tgvars, mvars, svars, sweeps, rvars>>

\* handlers/order.py, cancel_order: the active order of the caller is
\* cancelled
cancel_active_order(u) ==
    /\ CountOrders
    /\ LET o == get_active_order(orders, u)
       IN IF o = 0
          THEN /\ reply' = Reply("cancel_order", u, 0, "not_found")
               /\ UNCHANGED orders
          ELSE /\ orders' = cancel_order(orders, o)
               /\ reply' = Reply("cancel_order", u, o, "applied")
    /\ UNCHANGED <<now, dbvars, tgvars, mvars, svars, sweeps, responding, contacts, rvars>>

NextOrders ==
    \/ \E u \in Users, o \in OrderIds : respond_to_order(u, o)
    \/ \E u \in Users, o \in OrderIds : respond_to_order_send(u, o)
    \/ \E u \in Users : cancel_active_order(u)

SpecOrders == Init /\ [][NextOrders]_vars

\* ------------------- handlers/callbacks.py, tasks/notifications.py: ratings
\* a run of the rating handlers executes at most MaxRatingSteps steps
CountRatings == steps < MaxRatingSteps /\ steps' = steps + 1

\* the arguments of one schedule_rating_request task
RatingTask(post_id, from_user_id, to_user_id) ==
    [post_id |-> post_id, from_user_id |-> from_user_id, to_user_id |-> to_user_id,
     retries |-> 0]

\* select(Rating).where(from_user_id, to_user_id, post_id)
existing_rating(table, post_id, from_user_id, to_user_id) ==
    \E r \in table : /\ r.post_id = post_id
                     /\ r.from_user_id = from_user_id
                     /\ r.to_user_id = to_user_id

\* contact:<post_id>:<author_user_id>, pressed by user u on a match
\* notification about post p in u's chat that still carries the button.
\* The notification is edited into the contact card, which has no such
\* button, and a rating request is scheduled in each direction for which
\* no rating exists.
show_contact(u, p) ==
    /\ CountRatings
    /\ \E m \in inbox :
          /\ m.post_id = p
          /\ m.recipient_id = u
          /\ m.message_id \notin contact_shown
          /\ contact_shown' = contact_shown \cup {m.message_id}
    /\ IF p \notin DOMAIN posts
       THEN /\ reply' = Reply("show_contact", u, p, "not_found")
            /\ UNCHANGED rating_tasks
       ELSE LET author == posts[p].author_id
                existing_rating_1 == existing_rating(ratings, p, u, author)
                existing_rating_2 == existing_rating(ratings, p, author, u)
                tasks_1 == IF existing_rating_1 THEN EmptyBag
                           ELSE SetToBag({RatingTask(p, u, author)})
                tasks_2 == IF existing_rating_2 THEN EmptyBag
                           ELSE SetToBag({RatingTask(p, author, u)})
            IN /\ BagCardinality(rating_tasks (+) tasks_1 (+) tasks_2) <= MaxRatingTasks
               /\ rating_tasks' = rating_tasks (+) tasks_1 (+) tasks_2
               /\ reply' = Reply("show_contact", u, p, "applied")
    /\ UNCHANGED <<now, dbvars, tgvars, mvars, svars, sweeps, ovars, ratings, rating_sent>>

\* The task after its countdown: nothing is sent when the rating exists;
\* otherwise the request is sent, and a send that raises (sent is FALSE)
\* is retried.
schedule_rating_request(t) ==
    /\ CountRatings
    /\ BagIn(t, rating_tasks)
    /\ LET rest == rating_tasks (-) SetToBag({t})
       IN IF existing_rating(ratings, t.post_id, t.from_user_id, t.to_user_id)
          THEN /\ rating_tasks' = rest
               /\ reply' = Reply("schedule_rating_request", t.from_user_id, t.post_id, "skipped")
               /\ UNCHANGED rating_sent
          ELSE \E sent \in BOOLEAN :
                 IF sent
                 THEN /\ rating_tasks' = rest
                      /\ rating_sent' = rating_sent (+) SetToBag({[t EXCEPT !.retries = 0]})
                      /\ reply' = Reply("schedule_rating_request", t.from_user_id, t.post_id, "sent")
                 ELSE /\ rating_tasks' = retry(rest, t)
                      /\ reply' = ReplySent("schedule_rating_request", t.from_user_id,
                                            t.post_id, "error", FALSE)
                      /\ UNCHANGED rating_sent
    /\ UNCHANGED <<now, dbvars, tgvars, mvars, svars, sweeps, ovars, ratings, contact_shown>>

\* handlers/rating.py, rate:<post_id>:<to_user>:<stars>, pressed on a
\* rating request t that was sent: the rating is stored unless the user has
\* rated already
process_rating(t) ==
    /\ CountRatings
    /\ BagIn(t, rating_sent)
    /\ IF existing_rating(ratings, t.post_id, t.from_user_id, t.to_user_id)
       THEN /\ reply' = Reply("process_rating", t.from_user_id, t.post_id, "already")
            /\ UNCHANGED ratings
       ELSE /\ ratings' = ratings \cup {[post_id |-> t.post_id,
                                         from_user_id |-> t.from_user_id,
                                         to_user_id |-> t.to_user_id]}
            /\ reply' = Reply("process_rating", t.from_user_id, t.post_id, "applied")
    /\ UNCHANGED <<now, dbvars, tgvars, mvars, svars, sweeps, ovars, rating_tasks,
                   rating_sent, contact_shown>>

RatingTasks ==
    [post_id : PostIds, from_user_id : Users, to_user_id : Users, retries : 0..max_retries]

\* the rating handlers and task next to the steps that deliver match
\* notifications: pause, resume and the dispatch task
NextRatings ==
    \/ \E u \in Users, p \in PostIds : show_contact(u, p)
    \/ \E t \in RatingTasks : schedule_rating_request(t)
    \/ \E t \in RatingTasks : process_rating(t)
    \/ \E p \in PostIds : post_action_pause(p)
    \/ \E p \in PostIds : post_action_resume(p)
    \/ \E t \in BagToSet(queue), outcome \in Outcomes : send_match_notification(t, outcome)

SpecRatings == Init /\ [][NextRatings]_vars

\* ------------------------------------------------------------------ claims
\* every key of list s occurs in list t
EachKeyIn(s, t) == \A i \in 1..Len(s) : \E j \in 1..Len(t) : t[j] = s[i]

\* C3: the subscription match is true iff every origin key of the
\* subscription is an origin key of the listing and every destination key
\* of the subscription is a destination key of the listing, both in
\* check_subscription_match and in the selection of
\* find_matching_subscriptions.
C3_SubscriptionMatchIsSubsetOnBothLegs ==
    LET both == /\ EachKeyIn(m_args.a_from, m_args.b_from)
                /\ EachKeyIn(m_args.a_to, m_args.b_to)
    IN /\ m_call = "check_subscription_match" => (m_result = both)
       /\ m_call = "find_matching_subscriptions" =>
              (m_result = IF both THEN <<2>> ELSE << >>)

\* subscription origin {south, bazaar} against listing origin {bazaar}
\* has been evaluated and did not match
C3_Witness ==
    /\ m_call = "check_subscription_match"
    /\ m_args.a_from = <<"south", "bazaar">>
    /\ m_args.b_from = <<"bazaar">>
    /\ m_args.a_to = <<"north">>
    /\ m_args.b_to = <<"north">>
    /\ m_result = FALSE

\* C4: two opposite-role listings match iff one of them is contained in
\* the other on both legs, in the same direction; a listing contained on
\* one leg and containing on the other does not match.
C4_ListingsMatchIsSubsetEitherWay ==
    LET a_in_b == /\ EachKeyIn(m_args.a_from, m_args.b_from)
                  /\ EachKeyIn(m_args.a_to, m_args.b_to)
        b_in_a == /\ EachKeyIn(m_args.b_from, m_args.a_from)
                  /\ EachKeyIn(m_args.b_to, m_args.a_to)
    IN m_call = "find_matching_posts" =>
           (m_result = IF a_in_b \/ b_in_a THEN {2} ELSE {})

\* the mixed case was evaluated: a's origin is strictly inside b's origin,
\* b's destination strictly inside a's destination, and there is no match
C4_Witness ==
    /\ m_call = "find_matching_posts"
    /\ m_args.a_from = <<"bazaar">>
    /\ m_args.b_from = <<"north", "bazaar">>
    /\ m_args.a_to = <<"north", "south">>
    /\ m_args.b_to = <<"north">>
    /\ m_result = {}

\* b is the reverse-direction counterpart of a
IsReverse ==
    /\ ToSet(m_args.b_from) = ToSet(m_args.a_to)
    /\ ToSet(m_args.b_to) = ToSet(m_args.a_from)

\* C5 as stated: a listing never matches its reverse-direction counterpart.
C5_ReverseNeverMatches ==
    (m_call = "find_matching_posts" /\ IsReverse) => m_result = {}

\* C5 amended: a listing whose origin key-set differs from its destination
\* key-set never matches its reverse-direction counterpart.
C5_ReverseOfDirectedRouteNeverMatches ==
    (/\ m_call = "find_matching_posts"
     /\ IsReverse
     /\ ToSet(m_args.a_from) # ToSet(m_args.a_to)) => m_result = {}

\* bazaar -> north against north -> bazaar was evaluated and did not match
C5_Witness ==
    /\ m_call = "find_matching_posts"
    /\ m_args.a_from = <<"bazaar">>
    /\ m_args.a_to = <<"north">>
    /\ m_args.b_from = <<"north">>
    /\ m_args.b_to = <<"bazaar">>
    /\ m_result = {}

\* ---------------------------------------------------- ledger and lifecycle
\* C1: the ledger holds at most one row for every (post, recipient) pair.
C1_LedgerUniquePerPair ==
    \A e1, e2 \in ledger :
        (e1.post_id = e2.post_id /\ e1.recipient_id = e2.recipient_id) => e1 = e2

\* two dispatches for one pair have delivered and the pair has its one row
C1_Witness ==
    \E e \in ledger : delivered[e.post_id][e.recipient_id] >= 2

\* C2: while a post is neither paused nor deleted, no user is delivered a
\* second match notification about it.
C2_AtMostOneDeliveryPerPair ==
    \A p \in PostIds, u \in Users : delivered[p][u] <= 1

HasActiveOtherThan(author_id, p) ==
    \E q \in 1..Len(posts) : /\ q # p
                             /\ posts[q].author_id = author_id
                             /\ posts[q].status = "active"

\* the step is a pause that was applied (post_action:pause or post:pause)
IsPause == reply'.op = "pause" /\ reply'.result = "applied"

\* C6 as stated: a pause of post p removes exactly the ledger rows of p.
C6_PauseRemovesOnlyRowsOfPost ==
    [][IsPause => ledger' = {e \in ledger : e.post_id # reply'.post_id}]_vars

\* C6 amended: a pause of post p removes exactly the ledger rows of p and
\* the rows whose recipient is the author of p, and no other row.
C6_PauseRemovesRowsOfPostAndOfAuthor ==
    [][IsPause =>
         ledger' = {e \in ledger :
                      /\ e.post_id # reply'.post_id
                      /\ e.recipient_id # posts[reply'.post_id].author_id}]_vars

\* a pause has removed a row of another post
C6_Witness ==
    /\ reply.op = "pause"
    /\ reply.result = "applied"
    /\ \E e \in revoked : e.post_id # reply.post_id

\* C7: every author has at most one active post.
C7_OneActivePostPerAuthor ==
    \A u \in Users :
        Cardinality({q \in 1..Len(posts) :
                        posts[q].author_id = u /\ posts[q].status = "active"}) <= 1

Rejected ==
    /\ reply'.result = "conflict"
    /\ UNCHANGED <<posts, ledger, queue, channel, inbox, delivered, subscriptions>>

\* C8: a resume or recreate of an author who has another active post is
\* answered with a conflict and changes no post, publishes nothing and
\* dispatches nothing.
C8_ConflictHasNoEffect ==
    [][/\ (/\ reply'.op = "resume"
           /\ reply'.post_id \in 1..Len(posts)
           /\ HasActiveOtherThan(posts[reply'.post_id].author_id, reply'.post_id))
          => Rejected
       /\ (/\ reply'.op = "recreate"
           /\ reply'.result # "not_found"
           /\ HasActiveOtherThan(reply'.user_id, 0))
          => Rejected]_vars

\* a resume or a recreate has been answered with a conflict
C8_Witness ==
    /\ reply.op \in {"resume", "recreate"}
    /\ reply.result = "conflict"

\* C9: deleting a post that is already deleted changes no post, no ledger
\* row and retracts no message.
C9_DeleteOfDeletedIsNoOp ==
    [][(/\ reply'.op = "delete"
        /\ reply'.post_id \in 1..Len(posts)
        /\ posts[reply'.post_id].status = "deleted")
          => UNCHANGED <<posts, ledger, inbox, channel>>]_vars

ExpectedFrom(op) ==
    CASE op = "pause" -> {"active"}
      [] op = "resume" -> {"paused"}
      [] op = "extend" -> {"active"}
      [] op = "delete" -> {"active", "taken"}

\* C11: a pause, resume, extend or delete requested for a listing whose
\* status is not the transition's expected from-state is a no-op: the
\* listing (status, deadline, channel reference) and the ledger are unchanged.
C11_TransitionOnlyFromExpectedStatus ==
    [][(/\ reply'.op \in {"pause", "resume", "extend", "delete"}
        /\ reply'.post_id \in 1..Len(posts)
        /\ posts[reply'.post_id].status \notin ExpectedFrom(reply'.op))
          => /\ posts'[reply'.post_id] = posts[reply'.post_id]
             /\ ledger' = ledger]_vars

\* C12: deleted is terminal: a listing whose status is deleted keeps it in
\* every later step.
C12_DeletedIsTerminal ==
    [][\A p \in 1..Len(posts) :
          posts[p].status = "deleted" => posts'[p].status = "deleted"]_vars

\* ------------------------------------------------------------ the sweeper
\* C13: a tick removes no ledger entry and retracts no match notification,
\* in the expire pass and in the purge pass.
C13_TickLeavesLedgerAndInbox ==
    [][reply'.op = "tick" => (ledger' = ledger /\ inbox' = inbox)]_vars

\* a tick has expired a post and purged its channel message, and the
\* ledger row about the post and the notification it stands for are there
C13_Witness ==
    /\ reply.op = "tick"
    /\ \E e \in ledger :
         /\ posts[e.post_id].status = "expired"
         /\ posts[e.post_id].channel_message_id = 0
         /\ \E m \in inbox : m.message_id = e.notification_message_id

\* ------------------------------------------------------ transport failures
\* C17: a pause, delete, resume or tick whose channel call failed has
\* committed all the same: the post has the new status, the ledger rows of
\* a paused or deleted post are gone, every due active post is expired.
C17_TransportFailureDoesNotAbort ==
    [][(~ reply'.sent) =>
         LET p == reply'.post_id
         IN CASE reply'.op = "pause" ->
                   /\ posts'[p].status = "paused"
                   /\ \A e \in ledger' : e.post_id # p
              [] reply'.op = "delete" ->
                   /\ posts'[p].status = "deleted"
                   /\ \A e \in ledger' : e.post_id # p
              [] reply'.op = "resume" -> posts'[p].status = "active"
              [] reply'.op = "tick" ->
                   \A q \in 1..Len(posts) :
                      (posts[q].status = "active" /\ posts[q].expires_at < now)
                         => posts'[q].status = "expired"
              [] OTHER -> TRUE]_vars

\* a pause whose unpublish call failed: the post is paused, its reference
\* cleared, the channel message still there
C17_Witness ==
    /\ reply.op = "pause"
    /\ ~ reply.sent
    /\ posts[reply.post_id].status = "paused"
    /\ posts[reply.post_id].channel_message_id = 0
    /\ channel # {}

\* C18: after a pause or delete of post p no ledger row of p that existed
\* before remains, whether or not its message could be retracted.
C18_RowsDeletedEvenIfRetractFails ==
    [][(reply'.op \in {"pause", "delete"} /\ reply'.result = "applied") =>
         \A e \in ledger : e.post_id = reply'.post_id => e \notin ledger']_vars

\* a row of the paused or deleted post is gone while its message, which
\* could not be retracted, is still in the recipient's chat
C18_Witness ==
    /\ reply.op \in {"pause", "delete"}
    /\ reply.result = "applied"
    /\ \E e \in revoked :
         /\ e.post_id = reply.post_id
         /\ e \notin ledger
         /\ \E m \in inbox : m.message_id = e.notification_message_id

\* ------------------------------------------------------- dispatch and ledger
\* C19: a ledger row appears only in a step of the dispatch task for its
\* pair, together with the message the task has delivered; a message is
\* delivered only by a dispatch task, one per run.
C19_LedgerWrittenOnlyAfterDelivery ==
    [][/\ \A e \in ledger' \ ledger :
             /\ reply'.op = "send_match_notification"
             /\ e.post_id = reply'.post_id
             /\ e.recipient_id = reply'.user_id
             /\ \E m \in inbox' \ inbox :
                   /\ m.message_id = e.notification_message_id
                   /\ m.post_id = e.post_id
                   /\ m.recipient_id = e.recipient_id
       /\ (inbox' \ inbox # {}) => reply'.op = "send_match_notification"
       /\ Cardinality(inbox' \ inbox) <= 1]_vars

\* a dispatch task about post 1 has delivered its message and written the row
C19_Witness ==
    /\ reply.op = "send_match_notification"
    /\ reply.result = "ok"
    /\ reply.post_id = 1
    /\ \E e \in ledger :
         /\ e.post_id = 1
         /\ e.recipient_id = reply.user_id
         /\ \E m \in inbox : m.message_id = e.notification_message_id

\* C20: a dispatch task that delivers for a pair which already has its row
\* leaves the ledger as it is, ends without being queued again and
\* delivers nothing beyond its one message.
C20_DuplicateInsertIsSwallowed ==
    [][(/\ reply'.op = "send_match_notification"
        /\ reply'.result = "ok"
        /\ \E e \in ledger : /\ e.post_id = reply'.post_id
                             /\ e.recipient_id = reply'.user_id)
          => /\ ledger' = ledger
             /\ BagCardinality(queue') = BagCardinality(queue) - 1
             /\ Cardinality(inbox' \ inbox) = 1]_vars

\* a second message about post 2 has reached user 1 while the row of the
\* first one is still the pair's row
C20_Witness ==
    /\ reply.op = "send_match_notification"
    /\ reply.result = "ok"
    /\ reply.post_id = 2
    /\ reply.user_id = 1
    /\ delivered[2][1] = 2
    /\ [post_id |-> 2, recipient_id |-> 1, notification_message_id |-> 1] \in ledger
    /\ \E m \in inbox : m.post_id = 2 /\ m.recipient_id = 1 /\ m.message_id # 1

\* ------------------------------------------------------------ generate_keys
\* the maximal runs of letters of a text, as pairs of positions
Runs(text) ==
    {r \in (1..Len(text)) \X (1..Len(text)) :
        /\ r[1] <= r[2]
        /\ \A k \in r[1]..r[2] : text[k] \in Letters
        /\ r[1] = 1 \/ text[r[1] - 1] \notin Letters
        /\ r[2] = Len(text) \/ text[r[2] + 1] \notin Letters}

RunWord(text, r) == str_lower(SubSeq(text, r[1], r[2]))

FirstSeenAt(text, key) == Min({r[1] : r \in {q \in Runs(text) : RunWord(text, q) = key}})

C14_SubscriptionUniquePerKeySets ==
    \A i, j \in 1..Len(subscriptions) :
       (/\ i # j
        /\ subscriptions[i].user_id = subscriptions[j].user_id
        /\ ToSet(subscriptions[i].keys_from) = ToSet(subscriptions[j].keys_from))
          => ToSet(subscriptions[i].keys_to) # ToSet(subscriptions[j].keys_to)

\* C15: no stored subscription has an empty origin or destination key list.
C15_NoEmptyKeySetStored ==
    \A i \in 1..Len(subscriptions) :
       /\ subscriptions[i].keys_from # << >>
       /\ subscriptions[i].keys_to # << >>

\* ------------------------------------------------------------- activation
\* C23: every step that turns a listing active, or creates it active, hands
\* the tasks of a discovery run for that listing to the queue.
C23_ActivationRunsDiscovery ==
    [][\A p \in 1..Len(posts') :
          (/\ posts'[p].status = "active"
           /\ (p \in 1..Len(posts) => posts[p].status # "active"))
             => queue' = queue (+) Discovery(posts', ledger, p)]_vars

\* ---------------------------------------------------------------- ownership
\* C24: an operation requested by user u on a listing of another author
\* changes no listing, no ledger row and no channel message, and creates
\* no listing.
C24_OnlyAuthorActsOnListing ==
    [][(/\ reply'.user_id \in Users
        /\ reply'.op \in {"pause", "resume", "extend", "delete", "recreate"}
        /\ \E q \in 1..Len(posts) :
              /\ posts[q].author_id # reply'.user_id
              /\ \/ reply'.post_id = q
                 \/ /\ reply'.op = "recreate"
                    /\ Len(posts') > Len(posts)
                    /\ posts'[Len(posts')].keys_from = posts[q].keys_from
                    /\ posts'[Len(posts')].keys_to = posts[q].keys_to
                    /\ posts'[Len(posts')].role = posts[q].role
                    /\ ~ \E r \in 1..Len(posts) :
                            /\ posts[r].author_id = reply'.user_id
                            /\ posts[r].keys_from = posts[q].keys_from
                            /\ posts[r].keys_to = posts[q].keys_to
                            /\ posts[r].role = posts[q].role)
          => UNCHANGED <<posts, ledger, channel>>]_vars

\* ------------------------------------------------------ ledger and status
\* C25: no ledger row is about a listing that is paused or deleted.
C25_NoRowOfPausedOrDeleted ==
    \A e \in ledger : posts[e.post_id].status \notin {"paused", "deleted"}

\* C27: every match notification that is delivered and not retracted is
\* referenced by the ledger row of its listing and recipient.
C27_DeliveredIsRecorded ==
    \A m \in inbox : \E e \in ledger :
        /\ e.post_id = m.post_id
        /\ e.recipient_id = m.recipient_id
        /\ e.notification_message_id = m.message_id

\* C28: every applied delete of listing p removes the ledger rows of p and
\* the rows whose recipient is the author of p, as a pause does.
C28_DeleteRevokesAsPause ==
    [][(reply'.op = "delete" /\ reply'.result = "applied") =>
         \A e \in ledger :
            (\/ e.post_id = reply'.post_id
             \/ e.recipient_id = posts[reply'.post_id].author_id)
               => e \notin ledger']_vars

\* ------------------------------------------------------------------ extend
\* C29: an extend of an active listing is applied, sets its deadline to
\* now + POST_LIFETIME_MINUTES and changes nothing else: no other field of
\* any listing, no ledger row, no channel message, no delivered
\* notification, and nothing is handed to the queue.
C29_ExtendOfActiveMovesDeadlineOnly ==
    [][(/\ reply'.op = "extend"
        /\ reply'.post_id \in 1..Len(posts)
        /\ posts[reply'.post_id].status = "active")
          => /\ reply'.result = "applied"
             /\ posts' = [posts EXCEPT ![reply'.post_id].expires_at =
                                           now + POST_LIFETIME_MINUTES]
             /\ UNCHANGED <<ledger, queue, inbox, channel, delivered, subscriptions>>]_vars

\* a published active listing with a ledger row has been extended
C29_Witness ==
    /\ reply.op = "extend"
    /\ reply.result = "applied"
    /\ posts[reply.post_id].status = "active"
    /\ posts[reply.post_id].channel_message_id # 0
    /\ posts[reply.post_id].expires_at = now + POST_LIFETIME_MINUTES
    /\ \E e \in ledger : e.post_id = reply.post_id

\* --------------------------------------------------------- own notifications
\* C30: no queued dispatch task, no ledger row and no delivered
\* notification has the author of its listing as recipient.
C30_NeverNotifiedAboutOwnListing ==
    /\ \A t \in BagToSet(queue) : t.recipient_id # posts[t.post_id].author_id
    /\ \A e \in ledger : e.recipient_id # posts[e.post_id].author_id
    /\ \A m \in inbox : m.recipient_id # posts[m.post_id].author_id

\* discovery has run for a new listing whose route a subscription of its
\* own author covers, and has queued tasks for other users only
C30_Witness ==
    /\ reply.op = "recreate"
    /\ reply.result = "applied"
    /\ \E i \in 1..Len(subscriptions) :
          /\ subscriptions[i].user_id = posts[reply.post_id].author_id
          /\ check_subscription_match(subscriptions[i].keys_from, subscriptions[i].keys_to,
                                      posts[reply.post_id].keys_from,
                                      posts[reply.post_id].keys_to)
    /\ \E t \in BagToSet(queue) : t.post_id = reply.post_id

\* ------------------------------------------------------- the sweeper in time
\* C21: at most one run of the sweep is in progress.
C21_OneSweepInFlight == Len(sweeps) <= 1

\* the trigger has fired while a run was in progress and was skipped
C21_Witness ==
    /\ reply.op = "check_expired_posts"
    /\ reply.result = "skipped"
    /\ Len(sweeps) = 1

C26_SweepKeepsPauseAndDelete ==
    [][(reply'.op = "check_expired_posts" /\ reply'.result = "finished") =>
         \A q \in 1..Len(posts) :
            posts[q].status \in {"paused", "deleted"}
               => posts'[q].status = posts[q].status]_vars

\* ------------------------------------------------- dispatch of a discovery
\* the step is a resume or a recreate that ran match discovery
IsDiscovery == reply'.op \in {"resume", "recreate"} /\ reply'.result = "applied"

\* the subscriptions of user u that match post p of table
MatchingSubscriptionsOf(table, p, u) ==
    {i \in 1..Len(subscriptions) :
        /\ subscriptions[i].user_id = u
        /\ EachKeyIn(subscriptions[i].keys_from, table[p].keys_from)
        /\ EachKeyIn(subscriptions[i].keys_to, table[p].keys_to)}

\* the posts of author u the discovery of post p of table matches and has
\* no ledger row (p, u) for
MatchingPostsOf(table, p, u) ==
    {q \in 1..Len(table) :
        /\ table[q].author_id = u
        /\ table[q].author_id # table[p].author_id
        /\ table[q].role # table[p].role
        /\ table[q].status = "active"
        /\ \/ /\ EachKeyIn(table[p].keys_from, table[q].keys_from)
              /\ EachKeyIn(table[p].keys_to, table[q].keys_to)
           \/ /\ EachKeyIn(table[q].keys_from, table[p].keys_from)
              /\ EachKeyIn(table[q].keys_to, table[p].keys_to)
        /\ ~ \E e \in ledger : e.post_id = p /\ e.recipient_id = u}

C32_FailedUnpublishStaysRetryable ==
    [][reply'.op \in {"pause", "tick"} =>
         \A q \in 1..Len(posts) :
            (posts[q].channel_message_id # 0 /\ posts[q].channel_message_id \in channel')
               => posts'[q].channel_message_id = posts[q].channel_message_id]_vars

\* ------------------------------------------------------ purge of the sweeper
\* the times a tick can run at
Times == 0..MaxTime

\* C33: a tick deletes the channel message of a post, or clears its
\* reference, only when the post is expired, its deadline lies more than
\* the grace period in the past and it has a reference, and it then clears
\* the reference; a post without a reference is selected for purge by a
\* tick at no time.
C33_PurgeOnlyExpiredPastGrace ==
    /\ [][reply'.op = "tick" =>
            \A q \in 1..Len(posts) :
               LET ref == posts[q].channel_message_id
               IN (posts'[q].channel_message_id # ref \/ ref \in channel \ channel')
                     => /\ posts'[q].status = "expired"
                        /\ posts[q].expires_at + GRACE_MINUTES < now
                        /\ ref # 0
                        /\ posts'[q].channel_message_id = 0]_vars
    /\ [](\A q \in 1..Len(posts) :
             posts[q].channel_message_id = 0
                => \A t \in Times : q \notin old_expired_posts(posts, t))

\* a tick has purged the channel message of an expired post past its grace
\* period: the message is gone and the reference cleared
C33_Witness ==
    /\ reply.op = "tick"
    /\ \E q \in 1..Len(posts) :
          /\ posts[q].status = "expired"
          /\ posts[q].expires_at + GRACE_MINUTES < now
          /\ posts[q].channel_message_id = 0
          /\ expiration_notices = {q}
          /\ channel = {}

\* C34: a tick at time t1 commits the table sweep_posts gives, and a tick
\* at any later time t2 leaves the posts with the same status and channel
\* reference whether the tick at t1 has run or was skipped.
C34_SkippedTickLosesNothing ==
    [][reply'.op = "tick" =>
         /\ posts' = sweep_posts(posts, now)
         /\ \A t2 \in Times :
               t2 > now => sweep_posts(posts', t2) = sweep_posts(posts, t2)]_vars

\* a tick has expired a post that a later tick will purge
C34_Witness ==
    /\ reply.op = "tick"
    /\ \E q \in 1..Len(posts), t2 \in Times :
          /\ t2 > now
          /\ q \in expiration_notices
          /\ posts[q].status = "expired"
          /\ posts[q].channel_message_id # 0
          /\ sweep_posts(posts, t2)[q].channel_message_id = 0

\* C35: the row of a post, once created, exists in every later state.
C35_PostRowIsNeverRemoved ==
    [][DOMAIN posts \subseteq DOMAIN posts']_vars

\* C36: for an active driver post a of author 1 and an active passenger
\* post b of author 2, discovery run for a selects b iff discovery run for
\* b selects a.
C36_ListingMatchIsSymmetric ==
    LET a == ArgPost(1, "driver", m_args.a_from, m_args.a_to)
        b == ArgPost(2, "passenger", m_args.b_from, m_args.b_to)
    IN m_call = "find_matching_posts" =>
           (2 \in m_result <=> 1 \in find_matching_posts(<<a, b>>, b))

\* discovery for a has selected a post b with a longer route on both legs:
\* a is contained in b and b is not contained in a
C36_Witness ==
    /\ m_call = "find_matching_posts"
    /\ m_result = {2}
    /\ Len(m_args.a_from) < Len(m_args.b_from)
    /\ Len(m_args.a_to) < Len(m_args.b_to)

\* C37: the contacts of an order are exchanged, and the take applied, only
\* while the order is active and for a user other than its author; a
\* respond on an order that is already taken exchanges nothing.
C37_TakeOnlyOfActiveOrder ==
    [][\A o \in DOMAIN orders :
          contacts'[o] > contacts[o]
             => /\ orders[o].status = "active"
                /\ reply'.user_id # orders[o].user_id
                /\ orders'[o].status = "taken"]_vars

\* the rating requests about post p from user a to user b that are
\* scheduled and waiting, or were sent
RequestsFor(p, a, b) ==
    LET Of(bag) == {t \in BagToSet(bag) : /\ t.post_id = p
                                          /\ t.from_user_id = a
                                          /\ t.to_user_id = b}
        Sum(bag) == BagCardinality([t \in Of(bag) |-> CopiesIn(t, bag)])
    IN Sum(rating_tasks) + Sum(rating_sent)

\* C38: for every post, rater and ratee at most one rating request is
\* scheduled or sent, and none is scheduled or sent once the rating exists.
C38_OneRatingRequestPerTriple ==
    /\ [](\A p \in PostIds, a, b \in Users : RequestsFor(p, a, b) <= 1)
    /\ [][\A p \in PostIds, a, b \in Users :
             existing_rating(ratings, p, a, b)
                => (RequestsFor(p, a, b))' <= RequestsFor(p, a, b)]_vars

====
